---- MODULE Spec2Model ----
(***************************************************************************)
(* The Mandelbrot renderer of mandelbrot-gtk-rs: the producer loop of      *)
(* src/mandel_image.rs with its two channels (created in src/gui.rs), the  *)
(* image builder it calls, and the consumer side that sends requests and   *)
(* receives replies (Spec, FairSpec); and the functions of the engine,    *)
(* each called by itself, the parallel fill thread by thread (EngineSpec). *)
(* The handlers of the GUI's State run one signal at a time (GuiSpec), the *)
(* setters and redraw guards of src/gui/state.rs one call at a time        *)
(* (GuardSpec).                                                            *)
(*                                                                         *)
(* f64 values are modelled by integers: every Mapping the consumer sends   *)
(* here has an integral centre and an even integral scale, so that all the *)
(* f64 operations of the renderer are exact on them.  An Option<T> is a    *)
(* sequence of length 0 (None) or 1 (Some).                                *)
(***************************************************************************)
EXTENDS Integers, Sequences, FiniteSets, TLC

VARIABLES
    par_count,       \* producer: thread::available_parallelism(), or 8
    pc,              \* producer: position in the loop
    available,       \* producer: Option<MandelReq>
    request,         \* producer: Option, the MandelReq taken for rendering
    reply,           \* producer: Option, the MandelReply built, not yet sent
    ran,             \* producer: what the render that just ended has run
    reqChan,         \* async_channel::unbounded(): queued MandelReq
    replyChan,       \* async_channel::bounded(1): queued MandelReply
    senderDropped,   \* consumer dropped req_sender
    receiverDropped, \* consumer dropped reply_receiver
    img,             \* consumer: State.img, Option, the last reply received
    sent,            \* history: number of requests enqueued (the last one's id)
    batch,           \* history: of the last blocking receive
    polled,          \* history: value of sent at the last empty poll
    rendered,        \* history: one record per render started
    delivered,       \* history: the request ids of the replies put on the
                     \* reply channel
    closedAt,        \* history: Len(delivered) when req_sender was dropped
    call,            \* engine: Option, the call under way, with its arguments
    ret,             \* engine: Option, what the call returned
    fill_pc,         \* parallel fill: position in fill_mandel_image_parallel
    splitsVec,       \* parallel fill: splits, the band starts not popped yet
    endRow,          \* parallel fill: end, the end row of the next band
    restLen,         \* parallel fill: length of data, the part not handed out
    slotsLeft,       \* parallel fill: length of the statuses slice left
    statusVec,       \* parallel fill: statuses, the Vec of the bands' results
    jobs,            \* parallel fill: the jobs given to scope.execute
    buffer,          \* parallel fill: the bytes of the whole buffer
    writers,         \* history: for every byte, the jobs that wrote it
    state,           \* GUI: the State (mapping, col_idx, preset, block)
    widgets,         \* GUI: the entries' texts, the adjustments' values and
                     \* the selected colouring
    guards,          \* GUI: the number of PostponedRedraw values alive
    event            \* history: the handler that ran last, and what was
                     \* before it

prodVars == <<par_count, pc, available, request, reply, ran>>
chanVars == <<reqChan, replyChan, senderDropped, receiverDropped>>
consVars == <<img>>
histVars == <<sent, batch, polled, rendered, delivered, closedAt>>
progVars == <<prodVars, chanVars, consVars, histVars>>
fillVars == <<fill_pc, splitsVec, endRow, restLen, slotsLeft, statusVec, jobs,
              buffer, writers>>
engVars == <<call, ret, fillVars>>
guiVars == <<state, widgets, guards, event>>
vars == <<progVars, engVars, guiVars>>

---------------------------------------------------------------------------
(* Bounds of the model *)

\* the number of requests the consumer sends in a run
MaxSends == 3

\* the engine's calls: the heights of the images filled, the iteration
\* depths, the escape values coloured and the coordinates iterated
MaxHeight == 9
MaxDepth == 3
MaxValue == 20
MaxCoord == 2

\* the GUI: the upper end of the zoom (1000.0 in the code), and the
\* PostponedRedraw values alive at once
MaxZoom == 2
MaxGuards == 2

\* the calls of the State's setters and guards in a run
MaxCalls == 4

---------------------------------------------------------------------------
(* Program constants *)

I32Max == 2147483647
ReplyCap == 1
StatusSlots == 8
DefaultParCount == 8
BytesPerPixel == 4
WIN_SZ0 == 600
InitialDepth == 100
IterLower == 10
IterUpper == 1000

None == <<>>
Some(x) == <<x>>
IsSome(o) == o # <<>>
Unwrap(o) == o[1]

\* usize as i32, on the values a model run can hold
AsI32(x) == IF x <= I32Max THEN x ELSE x - I32Max - I32Max - 2

---------------------------------------------------------------------------
(* src/colorings.rs: the colouring schemes, by their index in all_colorings *)

Rgb18Table ==
    <<16727871, 16744255, 16760639, 16777023, 12582719, 8388415, 4194111,
      4194175, 4194239, 4194303, 4177919, 4161535, 4145151, 8339455,
      12533759, 16728063, 16727999, 16727935>>
RedBlueTable ==
    <<0, 4194304, 8388608, 12582912, 16711680, 16711744, 16711808, 16711872,
      16711935, 12583167, 8388863, 4194559, 255, 192, 128, 64>>
RgbAlternatingTable == <<16711680, 65280, 255>>

Rgb18_get_color(v, max) ==
    IF max <= v THEN 0 ELSE Rgb18Table[(v % 18) + 1]
RgbAlternating_get_color(v, max) ==
    IF max <= v THEN 0 ELSE RgbAlternatingTable[(v % 3) + 1]
RedBlue_get_color(v, max) ==
    IF max <= v THEN 4210752 ELSE RedBlueTable[(v % 16) + 1]
BlackWhite_get_color(v, max) ==
    IF v = max THEN 8421504 ELSE IF v % 2 = 1 THEN 16777215 ELSE 0
OldBlackWhite_get_color(v, max) ==
    IF v % 2 = 1 THEN 16777215 ELSE 0

\* all_colorings()[col].get_color(v, max)
get_color(col, v, max) ==
    CASE col = 0 -> Rgb18_get_color(v, max)
      [] col = 1 -> RgbAlternating_get_color(v, max)
      [] col = 2 -> RedBlue_get_color(v, max)
      [] col = 3 -> BlackWhite_get_color(v, max)
      [] col = 4 -> OldBlackWhite_get_color(v, max)

\* u32::to_ne_bytes, byte i of 0..3, on a little-endian target
to_ne_byte(c, i) ==
    CASE i = 0 -> c % 256
      [] i = 1 -> (c \div 256) % 256
      [] i = 2 -> (c \div 65536) % 256
      [] i = 3 -> (c \div 16777216) % 256

---------------------------------------------------------------------------
(* src/mandel_image.rs: Mapping, WinToMandel, mandel_value *)

Mapping(cx, cy, scale, iteration_depth, win_width, win_height) ==
    [cx |-> cx, cy |-> cy, scale |-> scale,
     iteration_depth |-> iteration_depth,
     win_width |-> win_width, win_height |-> win_height]

\* a variant of is_valid that forgets the check of the scale
is_valid_no_scale(m) ==
    /\ 0 < m.win_width
    /\ m.win_width <= I32Max
    /\ 0 < m.win_height
    /\ m.win_height <= I32Max
    /\ m.iteration_depth > 0

is_valid(m) ==
    /\ 0 < m.win_width
    /\ m.win_width <= I32Max
    /\ 0 < m.win_height
    /\ m.win_height <= I32Max
    /\ m.scale > 0
    /\ m.iteration_depth > 0

\* v / 2.0, exact on the even values the model's mappings produce
Half(v) == v \div 2

\* a variant of the converter with the y0 of the comment of lines 48-63,
\* y_c - (f * h) / 2
from_mapping_y_minus(m) ==
    [f  |-> m.scale,
     x0 |-> m.cx - Half(m.scale * m.win_width),
     y0 |-> m.cy - Half(m.scale * m.win_height)]

from_mapping(m) ==
    [f  |-> m.scale,
     x0 |-> m.cx - Half(m.scale * m.win_width),
     y0 |-> m.cy + Half(m.scale * m.win_height)]
cvt_x(conv, wx) == conv.x0 + wx * conv.f
cvt_y(conv, wy) == conv.y0 - wy * conv.f

RECURSIVE mandel_loop(_, _, _, _, _, _)
mandel_loop(x, y, max, iter, r, i) ==
    IF iter < max
    THEN LET rnext == r * r - i * i + x
             inext == 2 * r * i + y
         IN  IF inext * inext + rnext * rnext >= 4
             THEN iter
             ELSE mandel_loop(x, y, max, iter + 1, rnext, inext)
    ELSE iter
\* a variant of the iteration that breaks only beyond the circle of radius 2
RECURSIVE mandel_loop_strict(_, _, _, _, _, _)
mandel_loop_strict(x, y, max, iter, r, i) ==
    IF iter < max
    THEN LET rnext == r * r - i * i + x
             inext == 2 * r * i + y
         IN  IF inext * inext + rnext * rnext > 4
             THEN iter
             ELSE mandel_loop_strict(x, y, max, iter + 1, rnext, inext)
    ELSE iter
mandel_value_strict(x, y, max) == mandel_loop_strict(x, y, max, 0, 0, 0)

mandel_value(x, y, max) == mandel_loop(x, y, max, 0, 0, 0)

---------------------------------------------------------------------------
(* src/mandel_image.rs: the fill engine.  A fill yields                    *)
(*   panic: the call panicked, data: the buffer afterwards, ok: its bool   *)
(* (of no meaning after a panic)                                           *)

\* lines 125-129, for i in 0..bytes.len(): iter.next() is the byte of the
\* line at position it, or None once the line is used up; wr collects the
\* positions (from 1) written
RECURSIVE bytes_loop(_, _, _, _, _)
bytes_loop(line, it, wr, c, i) ==
    IF i = BytesPerPixel
    THEN [line |-> line, it |-> it, wr |-> wr]
    ELSE IF it < Len(line)
         THEN bytes_loop([line EXCEPT ![it + 1] = to_ne_byte(c, i)], it + 1,
                         wr \cup {it + 1}, c, i + 1)
         ELSE bytes_loop(line, it, wr, c, i + 1)

\* lines 121-130, for wx in 0..w
RECURSIVE pixels_loop(_, _, _, _, _, _, _, _, _)
pixels_loop(line, it, wr, wx, w, y, col, conv, max) ==
    IF wx >= w
    THEN [line |-> line, wr |-> wr]
    ELSE LET x  == cvt_x(conv, wx)
             mv == mandel_value(x, y, max)
             st == bytes_loop(line, it, wr, get_color(col, mv, max), 0)
         IN  pixels_loop(st.line, st.it, st.wr, wx + 1, w, y, col, conv, max)

\* a variant of the row that has a pixel for every 4 bytes of the line
fill_line_to_stride(line, col, conv, w, wy, max) ==
    pixels_loop(line, 0, {}, 0, (Len(line) + BytesPerPixel - 1) \div BytesPerPixel,
                cvt_y(conv, wy), col, conv, max)

\* lines 118-130: one row, line being its ustride bytes and wy its number
\* in the window
fill_line(line, col, conv, w, wy, max) ==
    pixels_loop(line, 0, {}, 0, w, cvt_y(conv, wy), col, conv, max)

\* the bytes of data with those from position lo + 1 on replaced by line
put_line(data, lo, line) ==
    [k \in 1..Len(data) |->
        IF k > lo /\ k <= lo + Len(line) THEN line[k - lo] ELSE data[k]]

\* lines 117-131, for dy in 0..(h_end - h_start); the slice
\* data[dy * ustride..(dy + 1) * ustride] panics when data ends before it
RECURSIVE rows_loop(_, _, _, _, _, _, _, _, _)
rows_loop(data, dy, col, conv, w, h_start, h_end, max, ustride) ==
    IF dy >= h_end - h_start
    THEN [panic |-> FALSE, ok |-> TRUE, data |-> data]
    ELSE IF (dy + 1) * ustride > Len(data)
         THEN [panic |-> TRUE, ok |-> TRUE, data |-> data]
         ELSE LET lo   == dy * ustride
                  line == fill_line(SubSeq(data, lo + 1, lo + ustride),
                                    col, conv, w, h_start + dy, max).line
              IN  rows_loop(put_line(data, lo, line), dy + 1, col, conv, w,
                            h_start, h_end, max, ustride)

\* panic: the call panicked; ok: the bool returned (the code has one
\* return, of true); data: the slice afterwards
fill_mandel_image_partial(data, col, conv, w, h_start, h_end, max, ustride) ==
    rows_loop(data, 0, col, conv, w, h_start, h_end, max, ustride)

fill_mandel_image(data, col, w, h, max, ustride, m) ==
    fill_mandel_image_partial(data, col, from_mapping(m), w, 0, h, max, ustride)

\* the loop of lines 165-174, with n splits still to push
RECURSIVE splits_loop(_, _, _, _, _)
splits_loop(n, split, h_step, h_extra, splits) ==
    IF n = 0 THEN splits
    ELSE IF h_extra > 0
         THEN splits_loop(n - 1, split + h_step + 1, h_step, h_extra - 1,
                          Append(splits, split))
         ELSE splits_loop(n - 1, split + h_step, h_step, h_extra,
                          Append(splits, split))
\* a variant of the splits that leaves the rows of h % p to the last band
compute_splits_no_extra(h, p) == splits_loop(p, 0, h \div p, 0, <<>>)

compute_splits(h, p) == splits_loop(p, 0, h \div p, h % p, <<>>)

\* the loop of lines 180-198: splits still to pop, data the part of the
\* buffer not handed out yet, tail the bands handed out (filled), slots the
\* length left of the statuses slice, oks the results written so far
RECURSIVE scoped_loop(_, _, _, _, _, _, _, _, _, _, _)
scoped_loop(splits, data, tail, slots, oks, end_, col, conv, w, max, ustride) ==
    IF splits = <<>>
    THEN [panic |-> FALSE, data |-> data \o tail, ok |-> oks]
    ELSE LET s    == splits[Len(splits)]
             mid  == ustride * s
         IN  IF mid > Len(data) \/ slots < 1
             THEN \* split_at_mut panics: mid > len
                  [panic |-> TRUE, data |-> data \o tail, ok |-> oks]
             ELSE LET job == fill_mandel_image_partial(
                                 SubSeq(data, mid + 1, Len(data)),
                                 col, conv, w, s, end_, max, ustride)
                  IN  IF job.panic
                      THEN [panic |-> TRUE, data |-> SubSeq(data, 1, mid) \o job.data \o tail,
                            ok |-> oks]
                      ELSE scoped_loop(SubSeq(splits, 1, Len(splits) - 1),
                                       SubSeq(data, 1, mid), job.data \o tail,
                                       slots - 1, oks /\ job.ok, s,
                                       col, conv, w, max, ustride)

fill_mandel_image_parallel(pool, data, col, w, h, max, ustride, m) ==
    scoped_loop(compute_splits(h, pool), data, <<>>, StatusSlots, TRUE, h,
                col, from_mapping(m), w, max, ustride)

\* cairo's Format::Rgb24.stride_for_width: 4 bytes a pixel, an error for a
\* width whose row would not fit an i32; <<>> is Err, <<stride>> is Ok
stride_for_width(width) ==
    IF width >= (I32Max - 7) \div 32 THEN None ELSE Some(BytesPerPixel * width)

\* a variant of the test of line 223 that needs more rows than threads
use_parallel_strict(h, pool) == h > pool

\* line 223: if h >= pool.thread_count()
use_parallel(h, pool) == h >= pool

\* the result pair (data, stride) of make_mandel_image; engine and
\* allocated record which fill ran and whether the surface was allocated
make_mandel_image(req, pool) ==
    LET m == req.params
        none == [panic |-> FALSE, result |-> None, stride |-> 0,
                 engine |-> "none", allocated |-> FALSE]
    IN  IF ~is_valid(m) THEN none
        ELSE LET st == stride_for_width(m.win_width)
             IN  IF st = None THEN none
                 ELSE LET w == m.win_width
                          h == m.win_height
                          ustride == Unwrap(st)
                          max == m.iteration_depth
                          surface == [k \in 1..(h * ustride) |-> 0]
                          par == use_parallel(h, pool)
                          fill == IF par
                                  THEN fill_mandel_image_parallel(pool, surface,
                                           req.coloring, w, h, max, ustride, m)
                                  ELSE fill_mandel_image(surface, req.coloring,
                                           w, h, max, ustride, m)
                          engine == IF par THEN "parallel" ELSE "serial"
                      IN  IF fill.panic
                          THEN [panic |-> TRUE, result |-> None, stride |-> 0,
                                engine |-> engine, allocated |-> TRUE]
                          ELSE IF fill.ok
                          THEN [panic |-> FALSE, result |-> Some(fill.data),
                                stride |-> Unwrap(st),
                                engine |-> engine, allocated |-> TRUE]
                          ELSE [panic |-> FALSE, result |-> None, stride |-> 0,
                                engine |-> engine, allocated |-> TRUE]

---------------------------------------------------------------------------
(* The inputs of a run *)

\* the values thread::available_parallelism() gives the producer: two
\* cores, as many as the fallback of line 276, and one more than that
ParCounts == {2, DefaultParCount, DefaultParCount + 1}

SmallMapping == Mapping(0, 0, 2, 3, 2, 1)
TallMapping  == Mapping(0, 0, 2, 2, 1, DefaultParCount + 1)
ZeroScale    == Mapping(0, 0, 0, 3, 2, 2)
ZeroDepth    == Mapping(0, 0, 2, 0, 2, 2)
WideMapping  == Mapping(0, 0, 2, 3, (I32Max - 7) \div 32, 1)

\* the (mapping, coloring index) pairs State::recompute_image sends
ReqInputs ==
    { <<SmallMapping, 1>>, <<TallMapping, 3>>, <<ZeroScale, 3>>,
      <<ZeroDepth, 0>>, <<WideMapping, 3>> }

---------------------------------------------------------------------------
(* The channels *)

\* async_channel closes a channel when one of its sides is gone: the
\* producer holds req_receiver and reply_sender until it returns or unwinds
ProducerGone == pc \in {"done", "panicked"}
reqClosed    == senderDropped \/ ProducerGone
replyClosed  == receiverDropped \/ ProducerGone

---------------------------------------------------------------------------
(* src/gui.rs and src/gui/state.rs: the State, the widgets and the         *)
(* handlers.  A handler is a function of g, the State and the widgets      *)
(* with out, the requests sent so far; a widget's setter runs the handler  *)
(* connected to it before it returns, as GTK does.  The f64 values are     *)
(* whole numbers here too: the unit is half the scale of the zoom MaxZoom. *)

\* 4.0 * 1.035^(-zoom) / WIN_SZ0 in these units; a step of the zoom halves
\* the scale here (in the code it divides it by 1.035)
zoom_scale(zoom) == 2 * 2 ^ (MaxZoom - zoom)

\* Mapping::new_for_size: 4.0 / win_sz is zoom_scale(0) for WIN_SZ0
new_for_size(win_sz) ==
    Mapping(0, 0, (zoom_scale(0) * WIN_SZ0) \div win_sz, InitialDepth,
            win_sz, win_sz)

\* State::new
State_new ==
    [mapping |-> new_for_size(WIN_SZ0), col_idx |-> 0, preset |-> None,
     block |-> FALSE]

\* f64::to_string gives the one text Rust displays the value with; a text
\* is that one, another text of a value ("1.0", "1e0"), or no number
to_string(v) == [form |-> "display", val |-> v]
parse_f64(t) == IF t.form = "junk" THEN None ELSE Some(t.val)
expect_float_value(text) == parse_f64(text)

\* the widgets after build_ui, lines 258-293
Widgets_new ==
    [cx_value |-> to_string(State_new.mapping.cx),
     cy_value |-> to_string(State_new.mapping.cy),
     zoom_adj |-> 0,
     iter_adj |-> State_new.mapping.iteration_depth,
     colorings |-> 0]

\* presets.rs lines 40-42, Presets::new: Initial, Flamenco, Spiral
Preset(cx, cy, zoom, iter_depth) ==
    [cx |-> cx, cy |-> cy, zoom |-> zoom, iter_depth |-> iter_depth]
Presets ==
    << Preset(0, 0, 0, InitialDepth),
       Preset(-2, 1, MaxZoom, IterUpper),
       Preset(-1, 3, 1, IterUpper) >>
Presets_get(i) == Presets[i + 1]

\* State::recompute_image, of gui.rs and of gui/state.rs alike
State_recompute_image(g) ==
    IF g.state.block THEN g
    ELSE [g EXCEPT !.out = Append(@, [params |-> g.state.mapping,
                                      coloring |-> g.state.col_idx])]

\* a variant of block_recompute that does not set the flag
block_recompute_not(g) == g

block_recompute(g) == [g EXCEPT !.state.block = TRUE]

unblock_and_recompute(g) ==
    State_recompute_image([g EXCEPT !.state.block = FALSE])

State_on_resize(g, w, h) ==
    State_recompute_image([g EXCEPT !.state.mapping.win_width = w,
                                    !.state.mapping.win_height = h])

iter_depth_changed(g) ==
    State_recompute_image(
        [g EXCEPT !.state.mapping.iteration_depth = g.widgets.iter_adj])

cx_changed(g) ==
    LET value == expect_float_value(g.widgets.cx_value)
    IN  IF IsSome(value)
        THEN State_recompute_image(
                 [g EXCEPT !.state.mapping.cx = Unwrap(value)])
        ELSE g

cy_changed(g) ==
    LET value == expect_float_value(g.widgets.cy_value)
    IN  IF IsSome(value)
        THEN State_recompute_image(
                 [g EXCEPT !.state.mapping.cy = Unwrap(value)])
        ELSE g

\* GTK_INVALID_LIST_POSITION is the selection of an empty list only
col_changed(g) ==
    State_recompute_image([g EXCEPT !.state.col_idx = g.widgets.colorings])

zoom_changed(g) ==
    State_recompute_image(
        [g EXCEPT !.state.mapping.scale = zoom_scale(g.widgets.zoom_adj)])

\* gtk::Entry::set_text: the changed signal is emitted when the text
\* changes, and runs the handler connected
cx_value_set_text(g, text) ==
    IF g.widgets.cx_value = text THEN g
    ELSE cx_changed([g EXCEPT !.widgets.cx_value = text])
cy_value_set_text(g, text) ==
    IF g.widgets.cy_value = text THEN g
    ELSE cy_changed([g EXCEPT !.widgets.cy_value = text])

\* Adjustment::set_value: the value is clamped to lower..upper, and
\* value-changed is emitted when it changes
clamp(value, lower, upper) ==
    IF value < lower THEN lower ELSE IF value > upper THEN upper ELSE value
zoom_adj_set_value(g, value) ==
    LET v == clamp(value, 0, MaxZoom)
    IN  IF g.widgets.zoom_adj = v THEN g
        ELSE zoom_changed([g EXCEPT !.widgets.zoom_adj = v])
iter_adj_set_value(g, value) ==
    LET v == clamp(value, IterLower, IterUpper)
    IN  IF g.widgets.iter_adj = v THEN g
        ELSE iter_depth_changed([g EXCEPT !.widgets.iter_adj = v])

\* State::win_to_mandel
win_to_mandel(st, wx, wy) ==
    LET conv == from_mapping(st.mapping)
    IN  <<cvt_x(conv, wx), cvt_y(conv, wy)>>

\* on_clicked, lines 145-159
on_clicked(g, wx, wy) ==
    LET g1    == block_recompute(g)
        new_c == win_to_mandel(g1.state, wx, wy)
        g2    == cx_value_set_text(g1, to_string(new_c[1]))
        g3    == cy_value_set_text(g2, to_string(new_c[2]))
    IN  unblock_and_recompute(g3)

\* preset_ready, lines 161-179
preset_ready(g) ==
    LET preset == g.state.preset
        g1 == block_recompute([g EXCEPT !.state.preset = None])
        g2 == IF IsSome(preset)
              THEN LET p  == Presets_get(Unwrap(preset))
                       s1 == cx_value_set_text(g1, to_string(p.cx))
                       s2 == cy_value_set_text(s1, to_string(p.cy))
                       s3 == zoom_adj_set_value(s2, p.zoom)
                   IN  iter_adj_set_value(s3, p.iter_depth)
              ELSE g1
    IN  unblock_and_recompute(g2)

\* gui/state.rs: the setters, lines 57-95
set_cx(g, v_opt) ==
    IF IsSome(v_opt)
    THEN State_recompute_image([g EXCEPT !.state.mapping.cx = Unwrap(v_opt)])
    ELSE g
set_cy(g, v_opt) ==
    IF IsSome(v_opt)
    THEN State_recompute_image([g EXCEPT !.state.mapping.cy = Unwrap(v_opt)])
    ELSE g
set_col_idx(g, col_idx) ==
    State_recompute_image([g EXCEPT !.state.col_idx = col_idx])
set_zoom(g, zoom) ==
    State_recompute_image([g EXCEPT !.state.mapping.scale = zoom_scale(zoom)])
set_iter_depth(g, value) ==
    State_recompute_image([g EXCEPT !.state.mapping.iteration_depth = value])

\* gui/state.rs lines 118-137: postpone_redraw sets the flag and returns a
\* guard; the drop of a guard clears it and recomputes
postpone_redraw(g) == [g EXCEPT !.state.block = TRUE]
PostponedRedraw_drop(g) ==
    State_recompute_image([g EXCEPT !.state.block = FALSE])

NoEvent == [name |-> "none", args |-> <<>>, before |-> State_new,
            sent0 |-> 0, live |-> 0, nth |-> 0]

\* the GUI after build_ui: no handler has run, no guard is alive
GuiIdle ==
    /\ state = State_new
    /\ widgets = Widgets_new
    /\ guards = 0
    /\ event = NoEvent

---------------------------------------------------------------------------
(* The state after build_ui: the channels are empty and the producer is at *)
(* the top of its loop *)

NothingRan == [engine |-> "none", allocated |-> FALSE]

\* no call of the engine is under way
EngineIdle ==
    /\ call = None
    /\ ret = None
    /\ fill_pc = "idle"
    /\ splitsVec = <<>>
    /\ endRow = 0
    /\ restLen = 0
    /\ slotsLeft = 0
    /\ statusVec = <<>>
    /\ jobs = <<>>
    /\ buffer = <<>>
    /\ writers = <<>>

ProgramInit ==
    /\ pc = "recv"
    /\ available = None
    /\ request = None
    /\ reply = None
    /\ ran = NothingRan
    /\ reqChan = <<>>
    /\ replyChan = <<>>
    /\ senderDropped = FALSE
    /\ receiverDropped = FALSE
    /\ img = None
    /\ sent = 0
    /\ batch = [first |-> 0, last |-> 0]
    /\ polled = 0
    /\ rendered = <<>>
    /\ delivered = <<>>
    /\ closedAt = 0
    /\ GuiIdle

Init ==
    /\ par_count \in ParCounts
    /\ ProgramInit
    /\ EngineIdle

---------------------------------------------------------------------------
(* The producer, src/mandel_image.rs lines 281-300 *)

\* recv_blocking returns a request: the channel holds one
Recv ==
    /\ pc = "recv"
    /\ available = None
    /\ reqChan # <<>>
    /\ available' = Some(Head(reqChan))
    /\ reqChan' = Tail(reqChan)
    /\ pc' = "drain"
    /\ batch' = [first |-> Head(reqChan).id, last |-> sent]
    /\ UNCHANGED <<guiVars, engVars, par_count, request, reply, ran, replyChan, senderDropped,
                   receiverDropped, consVars, sent, polled, rendered, delivered,
                   closedAt>>

\* a variant of the closed receive that does not break: the loop goes on
\* to the drain with the slot empty
RecvClosedContinue ==
    /\ pc = "recv"
    /\ available = None
    /\ reqChan = <<>>
    /\ reqClosed
    /\ pc' = "drain"
    /\ UNCHANGED <<guiVars, engVars, par_count, available, request, reply, ran, chanVars,
                   consVars, histVars>>

\* a variant of the closed receive that ends the loop on a closed channel
\* that still holds requests
RecvClosedEarly ==
    /\ pc = "recv"
    /\ available = None
    /\ reqClosed
    /\ pc' = "done"
    /\ UNCHANGED <<guiVars, engVars, par_count, available, request, reply, ran, chanVars,
                   consVars, histVars>>

\* recv_blocking returns Err: the channel is closed and empty; break
RecvClosed ==
    /\ pc = "recv"
    /\ available = None
    /\ reqChan = <<>>
    /\ reqClosed
    /\ pc' = "done"
    /\ UNCHANGED <<guiVars, engVars, par_count, available, request, reply, ran, chanVars,
                   consVars, histVars>>

\* a variant of the replacement that keeps the request it already has
KeepFirstRequest(avail, new_req) == avail

\* replace_by_last_request: try_recv returns Ok(new_req)
replace_by_last_request_step(avail, new_req) == Some(new_req)

\* a variant of the drain that stops after one replacement
DrainOnlyOne ==
    /\ pc = "drain"
    /\ reqChan # <<>>
    /\ available' = Some(Head(reqChan))
    /\ reqChan' = Tail(reqChan)
    /\ pc' = "take"
    /\ polled' = sent
    /\ UNCHANGED <<guiVars, engVars, par_count, request, reply, ran, replyChan,
                   senderDropped, receiverDropped, consVars, sent, batch,
                   rendered, delivered, closedAt>>

DrainOne ==
    /\ pc = "drain"
    /\ reqChan # <<>>
    /\ available' = replace_by_last_request_step(available, Head(reqChan))
    /\ reqChan' = Tail(reqChan)
    /\ UNCHANGED <<guiVars, engVars, par_count, pc, request, reply, ran, replyChan,
                   senderDropped, receiverDropped, consVars, histVars>>

\* replace_by_last_request: try_recv returns Err (empty, or closed and
\* empty); break
DrainEmpty ==
    /\ pc = "drain"
    /\ reqChan = <<>>
    /\ pc' = "take"
    /\ polled' = sent
    /\ UNCHANGED <<guiVars, engVars, par_count, available, request, reply, ran, chanVars,
                   consVars, sent, batch, rendered, delivered, closedAt>>

\* available.take().unwrap(), and make_mandel_image is entered
StartRender ==
    /\ pc = "take"
    /\ IsSome(available)
    /\ request' = available
    /\ available' = None
    /\ pc' = "render"
    /\ rendered' = Append(rendered,
           [id |-> Unwrap(available).id,
            first |-> batch.first, last |-> batch.last,
            polled |-> polled, started |-> sent])
    /\ UNCHANGED <<guiVars, engVars, par_count, reply, ran, chanVars, consVars, sent, batch,
                   polled, delivered, closedAt>>

\* a variant of the reply with width and height exchanged
MakeReplySwapped(req, out) ==
    [result |-> out.result,
     width  |-> AsI32(req.params.win_height),
     height |-> AsI32(req.params.win_width),
     stride |-> out.stride,
     from   |-> req.id,
     of     |-> <<req.params, req.coloring>>]

\* the MandelReply of lines 294-299; from and of are history: the id and
\* the content of the request the reply answers
MakeReply(req, out) ==
    [result |-> out.result,
     width  |-> AsI32(req.params.win_width),
     height |-> AsI32(req.params.win_height),
     stride |-> out.stride,
     from   |-> req.id,
     of     |-> <<req.params, req.coloring>>]

\* make_mandel_image on every input of a run, evaluated once: the image
\* depends on the mapping, the coloring and the pool only
RenderTable ==
    { <<inp, pool,
        make_mandel_image([params |-> inp[1], coloring |-> inp[2]], pool)>> :
          inp \in ReqInputs, pool \in ParCounts }
\* a variant of the render that fills the surface on the first render only:
\* once a reply was sent the surface stays as it was allocated
RenderOfFirstOnly(req, pool) ==
    LET out == (CHOOSE t \in RenderTable :
                    t[1] = <<req.params, req.coloring>> /\ t[2] = pool)[3]
    IN  IF Len(delivered) >= 1 /\ IsSome(out.result)
        THEN [out EXCEPT !.result =
                  Some([k \in DOMAIN Unwrap(out.result) |-> 0])]
        ELSE out

RenderOf(req, pool) ==
    (CHOOSE t \in RenderTable :
         t[1] = <<req.params, req.coloring>> /\ t[2] = pool)[3]

\* make_mandel_image returns, or panics and unwinds the producer
FinishRender ==
    /\ pc = "render"
    /\ \E out \in {RenderOf(Unwrap(request), par_count)} :
           /\ ran' = [engine |-> out.engine, allocated |-> out.allocated]
           /\ IF out.panic
              THEN /\ pc' = "panicked"
                   /\ reply' = None
              ELSE /\ pc' = "send"
                   /\ reply' = Some(MakeReply(Unwrap(request), out))
    /\ UNCHANGED <<guiVars, engVars, par_count, available, request, chanVars, consVars,
                   histVars>>

\* variants of the reply channel: one without a capacity, one of capacity 2
CanSendAlways(chan) == TRUE
CanSendTwo(chan) == Len(chan) < ReplyCap + 1

\* whether send_blocking can put its message on the reply channel now
CanSend(chan) == Len(chan) < ReplyCap

\* send_blocking returns Ok: the reply channel had room
SendReply ==
    /\ pc = "send"
    /\ ~replyClosed
    /\ CanSend(replyChan)
    /\ replyChan' = Append(replyChan, Unwrap(reply))
    /\ delivered' = Append(delivered, Unwrap(reply).from)
    /\ reply' = None
    /\ request' = None
    /\ ran' = NothingRan
    /\ pc' = "recv"
    /\ UNCHANGED <<guiVars, engVars, par_count, available, reqChan, senderDropped,
                   receiverDropped, consVars, sent, batch, polled, rendered,
                   closedAt>>

\* a variant of the failed send that ends the loop
SendClosedBreak ==
    /\ pc = "send"
    /\ replyClosed
    /\ reply' = None
    /\ request' = None
    /\ ran' = NothingRan
    /\ pc' = "done"
    /\ UNCHANGED <<guiVars, engVars, par_count, available, chanVars, consVars, histVars>>

\* send_blocking returns Err: the reply channel is closed; let _ = drops it
SendClosed ==
    /\ pc = "send"
    /\ replyClosed
    /\ reply' = None
    /\ request' = None
    /\ ran' = NothingRan
    /\ pc' = "recv"
    /\ UNCHANGED <<guiVars, engVars, par_count, available, chanVars, consVars, histVars>>

Producer ==
    \/ Recv
    \/ RecvClosed
    \/ DrainOne
    \/ DrainEmpty
    \/ StartRender
    \/ FinishRender
    \/ SendReply
    \/ SendClosed

---------------------------------------------------------------------------
(* The consumer, src/gui.rs *)

\* a variant of the request channel with the capacity of the reply channel
ReqCanSendBounded(chan) == Len(chan) < ReplyCap

\* whether send_blocking can put its message on the request channel now:
\* the channel is unbounded
ReqCanSend(chan) == TRUE

\* State::recompute_image with block = false: the request is enqueued (on
\* a closed channel send_blocking returns Err, which is discarded, and
\* nothing changes)
\* id and answered are history: the number of the request, and whether the
\* consumer had received the reply of the request before it
recompute_image(mapping, col_idx) ==
    /\ sent < MaxSends
    /\ ~reqClosed
    /\ ReqCanSend(reqChan)
    /\ reqChan' = Append(reqChan,
           [id |-> sent + 1, params |-> mapping, coloring |-> col_idx,
            answered |-> IsSome(img) /\ Unwrap(img).from = sent])
    /\ sent' = sent + 1
    /\ UNCHANGED <<guiVars, engVars, prodVars, replyChan, senderDropped, receiverDropped,
                   consVars, batch, polled, rendered, delivered, closedAt>>

SendRequest == \E inp \in ReqInputs : recompute_image(inp[1], inp[2])

\* new_image_handler: recv().await returns a reply; handle_new_image
handle_new_image ==
    /\ ~receiverDropped
    /\ replyChan # <<>>
    /\ img' = Some(Head(replyChan))
    /\ replyChan' = Tail(replyChan)
    /\ UNCHANGED <<guiVars, engVars, prodVars, reqChan, senderDropped, receiverDropped, histVars>>

\* the State and its req_sender are dropped: the request channel closes
DropSender ==
    /\ ~senderDropped
    /\ senderDropped' = TRUE
    /\ closedAt' = Len(delivered)
    /\ UNCHANGED <<guiVars, engVars, prodVars, reqChan, replyChan, receiverDropped, consVars,
                   sent, batch, polled, rendered, delivered>>

\* the new_image_handler future and its reply_receiver are dropped: the
\* reply channel closes
DropReceiver ==
    /\ ~receiverDropped
    /\ receiverDropped' = TRUE
    /\ UNCHANGED <<guiVars, engVars, prodVars, reqChan, replyChan, senderDropped, consVars,
                   histVars>>

Next ==
    \/ Producer
    \/ SendRequest
    \/ handle_new_image
    \/ DropSender
    \/ DropReceiver

Spec == Init /\ [][Next]_vars

\* the producer runs on its own thread and the GLib main loop runs the
\* reply handler whenever a reply is there
FairSpec == Spec /\ WF_vars(Producer) /\ WF_vars(handle_new_image)

---------------------------------------------------------------------------
(* The GUI by itself: the handlers of src/gui.rs, one signal at a time     *)
(* (GuiSpec), and the setters and guards of src/gui/state.rs (GuardSpec).  *)
(* The producer does not run: the requests sent stay in the channel.       *)

\* the State and the widgets as a handler finds them
World == [state |-> state, widgets |-> widgets, out |-> <<>>]

\* a handler ran from World to g, with n guards alive afterwards: the
\* requests it sent are in the channel
GuiStep(name, args, g, n) ==
    /\ sent < MaxSends
    /\ ~reqClosed
    /\ state' = g.state
    /\ widgets' = g.widgets
    /\ guards' = n
    /\ reqChan' = reqChan \o
           [k \in 1..Len(g.out) |->
               [id |-> sent + k, params |-> g.out[k].params,
                coloring |-> g.out[k].coloring,
                answered |-> IsSome(img) /\ Unwrap(img).from = sent]]
    /\ sent' = sent + Len(g.out)
    /\ event' = [name |-> name, args |-> args, before |-> state,
                 sent0 |-> sent, live |-> guards, nth |-> event.nth + 1]
    /\ UNCHANGED <<engVars, prodVars, replyChan, senderDropped, receiverDropped,
                   consVars, batch, polled, rendered, delivered, closedAt>>

\* the texts typed into an entry
Texts ==
    {to_string(v) : v \in {0, 1}} \cup {[form |-> "typed", val |-> 1],
                                       [form |-> "junk", val |-> 0]}

\* the user edits the entry of the centre's x: cx_value's changed
cx_value_changed ==
    \E text \in Texts :
        /\ text # widgets.cx_value
        /\ GuiStep("cx_changed", <<text>>, cx_value_set_text(World, text), 0)

cy_value_changed ==
    \E text \in Texts :
        /\ text # widgets.cy_value
        /\ GuiStep("cy_changed", <<text>>, cy_value_set_text(World, text), 0)

\* the user moves the zoom bar: zoom_adj's value-changed
zoom_adj_value_changed ==
    \E zoom \in 0..MaxZoom :
        /\ zoom # widgets.zoom_adj
        /\ GuiStep("zoom_changed", <<zoom>>, zoom_adj_set_value(World, zoom), 0)

\* the user sets the spin button: iter_adj's value-changed
iter_adj_value_changed ==
    \E value \in {IterLower, InitialDepth} :
        /\ value # widgets.iter_adj
        /\ GuiStep("iter_depth_changed", <<value>>,
                   iter_adj_set_value(World, value), 0)

\* the user selects a colouring: colorings' notify::selected
colorings_selected_notify ==
    \E sel \in {0, 3} :
        /\ sel # widgets.colorings
        /\ GuiStep("col_changed", <<sel>>,
                   col_changed([World EXCEPT !.widgets.colorings = sel]), 0)

\* the canvas is resized
canvas_resize ==
    \E sz \in {<<WIN_SZ0, WIN_SZ0>>, <<WIN_SZ0 \div 2, WIN_SZ0 \div 3>>} :
        /\ sz # <<state.mapping.win_width, state.mapping.win_height>>
        /\ GuiStep("on_resize", sz, State_on_resize(World, sz[1], sz[2]), 0)

\* a click on the canvas: the gesture's pressed
gesture_pressed ==
    \E wx \in {0, state.mapping.win_width \div 2} :
    \E wy \in {state.mapping.win_height \div 2,
               state.mapping.win_height - 1} :
        GuiStep("on_clicked", <<wx, wy>>, on_clicked(World, wx, wy), 0)

\* Apply in the preset window: the preset selected is stored, the window
\* is hidden and its hide runs preset_ready
ok_btn_clicked ==
    \E sel \in 0..(Len(Presets) - 1) :
        GuiStep("preset_ready", Some(sel),
                preset_ready([World EXCEPT !.state.preset = Some(sel)]), 0)

\* Cancel in the preset window
cancel_btn_clicked ==
    GuiStep("preset_ready", None,
            preset_ready([World EXCEPT !.state.preset = None]), 0)

GuiNext ==
    \/ cx_value_changed
    \/ cy_value_changed
    \/ zoom_adj_value_changed
    \/ iter_adj_value_changed
    \/ colorings_selected_notify
    \/ canvas_resize
    \/ gesture_pressed
    \/ ok_btn_clicked
    \/ cancel_btn_clicked

GuiInit ==
    /\ par_count = DefaultParCount
    /\ ProgramInit
    /\ EngineIdle

GuiSpec == GuiInit /\ [][GuiNext]_vars

\* gui/state.rs: a caller sets a field, takes a guard or drops one
GuardStep(name, args, g, n) ==
    /\ event.nth < MaxCalls
    /\ GuiStep(name, args, g, n)

SetterNames ==
    {"set_cx", "set_cy", "set_col_idx", "set_zoom", "set_iter_depth",
     "on_resize"}

call_set_cx ==
    \E v_opt \in {None, Some(0), Some(1)} :
        GuardStep("set_cx", v_opt, set_cx(World, v_opt), guards)

call_set_cy ==
    \E v_opt \in {None, Some(0), Some(1)} :
        GuardStep("set_cy", v_opt, set_cy(World, v_opt), guards)

call_set_col_idx ==
    \E col_idx \in {0, 3} :
        GuardStep("set_col_idx", <<col_idx>>, set_col_idx(World, col_idx),
                guards)

call_set_zoom ==
    \E zoom \in 0..MaxZoom :
        GuardStep("set_zoom", <<zoom>>, set_zoom(World, zoom), guards)

call_set_iter_depth ==
    \E value \in {IterLower, InitialDepth} :
        GuardStep("set_iter_depth", <<value>>, set_iter_depth(World, value),
                guards)

call_on_resize ==
    \E sz \in {<<WIN_SZ0, WIN_SZ0>>, <<WIN_SZ0 \div 2, WIN_SZ0 \div 3>>} :
        GuardStep("on_resize", sz, State_on_resize(World, sz[1], sz[2]), guards)

\* a caller takes a guard
call_postpone_redraw ==
    /\ guards < MaxGuards
    /\ GuardStep("postpone_redraw", <<>>, postpone_redraw(World), guards + 1)

\* a guard goes out of scope
drop_PostponedRedraw ==
    /\ guards >= 1
    /\ GuardStep("drop", <<>>, PostponedRedraw_drop(World), guards - 1)

GuardNext ==
    \/ call_set_cx
    \/ call_set_cy
    \/ call_set_col_idx
    \/ call_set_zoom
    \/ call_set_iter_depth
    \/ call_on_resize
    \/ call_postpone_redraw
    \/ drop_PostponedRedraw

GuardSpec == GuiInit /\ [][GuardNext]_vars

---------------------------------------------------------------------------
(* The engine by itself: one call of a function of src/colorings.rs or     *)
(* src/mandel_image.rs, with its arguments drawn from the sets below.  The *)
(* parallel fill runs as the code runs it: the scope's loop hands the      *)
(* bands to the pool's threads, which fill them row by row, at once.       *)

cvt(conv, wx, wy) == <<cvt_x(conv, wx), cvt_y(conv, wy)>>

ColorCalls ==
    { [fn |-> "get_color", col |-> c, v |-> v, max |-> mx] :
        c \in 0..4, v \in 0..MaxValue, mx \in 1..MaxDepth }

MandelCalls ==
    { [fn |-> "mandel_value", x |-> x, y |-> y, max |-> mx] :
        x \in (-MaxCoord)..MaxCoord, y \in (-MaxCoord)..MaxCoord,
        mx \in 0..MaxDepth }

CvtCalls ==
    UNION { { [fn |-> "cvt", m |-> Mapping(cx, cy, sc, 1, w, h),
               wx |-> wx, wy |-> wy] :
                cx \in {-1, 0}, cy \in {0, 1}, sc \in {2, 4},
                wx \in 0..(w - 1), wy \in 0..(h - 1) } :
            w \in 1..4, h \in 1..4 }

\* a window of 4 rows around (1, -1): its pixels take 0, 1 and 2 iterations
BandMapping(w) == Mapping(1, -1, 2, MaxDepth, w, 4)

\* the band fill on a slice that is one byte short, exact, or too long, of
\* rows that are narrower than their pixels, exact, or padded
PartialCalls ==
    UNION { { [fn |-> "fill_mandel_image_partial",
               data |-> [k \in 1..((b[2] - b[1]) * us + d) |-> byte],
               col |-> c, m |-> BandMapping(w), w |-> w,
               h_start |-> b[1], h_end |-> b[2], max |-> MaxDepth,
               ustride |-> us] :
                b \in {<<0, 1>>, <<1, 3>>, <<2, 4>>}, d \in {-1, 0, 2},
                c \in {0, 3}, byte \in {0, 170},
                us \in {BytesPerPixel * w - 2, BytesPerPixel * w,
                        BytesPerPixel * w + 3} } :
            w \in 1..2 }

\* a window one pixel wide around (0, 0): its rows differ
ColumnMapping(h) == Mapping(0, 0, 2, MaxDepth, 1, h)

\* the parallel fill as make_mandel_image calls it: on the zeroed surface
\* of h * ustride bytes, with h >= pool.thread_count()
ParallelCalls ==
    UNION { { [fn |-> "fill_mandel_image_parallel", pool |-> p,
               data |-> [k \in 1..(h * Unwrap(stride_for_width(1))) |-> 0],
               col |-> 0, w |-> 1, h |-> h, max |-> MaxDepth,
               ustride |-> Unwrap(stride_for_width(1)),
               m |-> ColumnMapping(h)] :
                p \in 1..h } :
            h \in 1..MaxHeight }

\* the square window around (0, 0) that Mapping::new_for_size gives, in
\* whole numbers: n pixels a side, 2 a pixel
WindowMapping(n) == Mapping(0, 0, 2, MaxDepth, n, n)

\* make_mandel_image as the producer calls it: a request for a square
\* window, of fewer rows than the pool has threads, as many, or more
MakeCalls ==
    { [fn |-> "make_mandel_image",
       req |-> [id |-> 1, params |-> WindowMapping(n), coloring |-> c],
       pool |-> p] :
        n \in 1..(MaxHeight + 1), c \in {0, 3}, p \in 1..(StatusSlots + 1) }

EngineCalls ==
    ColorCalls \cup MandelCalls \cup CvtCalls \cup PartialCalls
        \cup ParallelCalls \cup MakeCalls

EngineInit ==
    /\ par_count = DefaultParCount
    /\ ProgramInit
    /\ call \in {Some(c) : c \in EngineCalls}
    /\ ret = None
    /\ fill_pc = "idle"
    /\ splitsVec = <<>>
    /\ endRow = 0
    /\ restLen = 0
    /\ slotsLeft = 0
    /\ statusVec = <<>>
    /\ jobs = <<>>
    /\ buffer = <<>>
    /\ writers = <<>>

Calling(fn) == IsSome(call) /\ Unwrap(call).fn = fn /\ ret = None

call_get_color ==
    /\ Calling("get_color")
    /\ ret' = Some(get_color(Unwrap(call).col, Unwrap(call).v, Unwrap(call).max))
    /\ UNCHANGED <<guiVars, progVars, call, fillVars>>

call_mandel_value ==
    /\ Calling("mandel_value")
    /\ ret' = Some(mandel_value(Unwrap(call).x, Unwrap(call).y, Unwrap(call).max))
    /\ UNCHANGED <<guiVars, progVars, call, fillVars>>

call_cvt ==
    /\ Calling("cvt")
    /\ ret' = Some(cvt(from_mapping(Unwrap(call).m), Unwrap(call).wx,
                       Unwrap(call).wy))
    /\ UNCHANGED <<guiVars, progVars, call, fillVars>>

call_fill_mandel_image_partial ==
    /\ Calling("fill_mandel_image_partial")
    /\ LET c == Unwrap(call)
       IN  ret' = Some(fill_mandel_image_partial(c.data, c.col,
                           from_mapping(c.m), c.w, c.h_start, c.h_end, c.max,
                           c.ustride))
    /\ UNCHANGED <<guiVars, progVars, call, fillVars>>

call_make_mandel_image ==
    /\ Calling("make_mandel_image")
    /\ ret' = Some(make_mandel_image(Unwrap(call).req, Unwrap(call).pool))
    /\ UNCHANGED <<guiVars, progVars, call, fillVars>>

\* fill_mandel_image_parallel, lines 158-176: the splits, end, statuses
parallel_begin ==
    /\ Calling("fill_mandel_image_parallel")
    /\ fill_pc = "idle"
    /\ splitsVec' = compute_splits(Unwrap(call).h, Unwrap(call).pool)
    /\ endRow' = Unwrap(call).h
    /\ statusVec' = [i \in 1..StatusSlots |-> TRUE]
    /\ slotsLeft' = StatusSlots
    /\ buffer' = Unwrap(call).data
    /\ restLen' = Len(Unwrap(call).data)
    /\ jobs' = <<>>
    /\ writers' = [k \in 1..Len(Unwrap(call).data) |-> {}]
    /\ fill_pc' = "scoped"
    /\ UNCHANGED <<guiVars, progVars, call, ret>>

\* whether the two split_at_mut of lines 182-183 succeed for the split s
CanSplit(s) == Unwrap(call).ustride * s <= restLen /\ slotsLeft >= 1

\* lines 180-197, one turn of the loop: the band from s to end gets the end
\* of data and the first status left, and goes to a thread of the pool
scope_execute ==
    /\ fill_pc = "scoped"
    /\ splitsVec # <<>>
    /\ LET s   == splitsVec[Len(splitsVec)]
           mid == Unwrap(call).ustride * s
       IN  /\ CanSplit(s)
           /\ splitsVec' = SubSeq(splitsVec, 1, Len(splitsVec) - 1)
           /\ jobs' = Append(jobs,
                  [lo |-> mid, len |-> restLen - mid, h_start |-> s,
                   h_end |-> endRow, slot |-> StatusSlots - slotsLeft + 1,
                   dy |-> 0, st |-> "running"])
           /\ restLen' = mid
           /\ slotsLeft' = slotsLeft - 1
           /\ endRow' = s
    /\ UNCHANGED <<guiVars, progVars, call, ret, fill_pc, statusVec, buffer, writers>>

\* lines 182-183: split_at_mut panics (mid > len); the scope is left by
\* unwinding
split_at_mut_panic ==
    /\ fill_pc = "scoped"
    /\ splitsVec # <<>>
    /\ ~CanSplit(splitsVec[Len(splitsVec)])
    /\ splitsVec' = SubSeq(splitsVec, 1, Len(splitsVec) - 1)
    /\ fill_pc' = "unwinding"
    /\ UNCHANGED <<guiVars, progVars, call, ret, endRow, restLen, slotsLeft, statusVec,
                   jobs, buffer, writers>>

\* the job j on its thread: one turn of the row loop of
\* fill_mandel_image_partial on last_part
worker_row(j) ==
    /\ fill_pc \in {"scoped", "unwinding"}
    /\ jobs[j].st = "running"
    /\ jobs[j].dy < jobs[j].h_end - jobs[j].h_start
    /\ LET c   == Unwrap(call)
           job == jobs[j]
           lo  == job.lo + job.dy * c.ustride
       IN  IF (job.dy + 1) * c.ustride > job.len
           THEN /\ jobs' = [jobs EXCEPT ![j].st = "panicked"]
                /\ UNCHANGED <<buffer, writers>>
           ELSE \E out \in {fill_line(SubSeq(buffer, lo + 1, lo + c.ustride),
                                      c.col, from_mapping(c.m), c.w,
                                      job.h_start + job.dy, c.max)} :
                    /\ buffer' = put_line(buffer, lo, out.line)
                    /\ writers' = [k \in 1..Len(writers) |->
                                      IF (k - lo) \in out.wr
                                      THEN writers[k] \cup {j}
                                      ELSE writers[k]]
                    /\ jobs' = [jobs EXCEPT ![j].dy = @ + 1]
    /\ UNCHANGED <<guiVars, progVars, call, ret, fill_pc, splitsVec, endRow, restLen,
                   slotsLeft, statusVec>>

\* the job j: fill_mandel_image_partial returns and first_status[0] is set
worker_return(j) ==
    /\ fill_pc \in {"scoped", "unwinding"}
    /\ jobs[j].st = "running"
    /\ jobs[j].dy = jobs[j].h_end - jobs[j].h_start
    /\ statusVec' = [statusVec EXCEPT ![jobs[j].slot] = TRUE]
    /\ jobs' = [jobs EXCEPT ![j].st = "done"]
    /\ UNCHANGED <<guiVars, progVars, call, ret, fill_pc, splitsVec, endRow, restLen,
                   slotsLeft, buffer, writers>>

worker == \E j \in 1..Len(jobs) : worker_row(j) \/ worker_return(j)

AllJoined == \A j \in 1..Len(jobs) : jobs[j].st # "running"

\* lines 199-205: the scope has joined its jobs, and the statuses are
\* and-ed; a job that panicked makes the join panic
parallel_return ==
    /\ fill_pc = "scoped"
    /\ splitsVec = <<>>
    /\ AllJoined
    /\ IF \E j \in 1..Len(jobs) : jobs[j].st = "panicked"
       THEN /\ fill_pc' = "panicked"
            /\ ret' = ret
       ELSE /\ fill_pc' = "returned"
            /\ ret' = Some(\A i \in 1..Len(statusVec) : statusVec[i])
    /\ UNCHANGED <<guiVars, progVars, call, splitsVec, endRow, restLen, slotsLeft,
                   statusVec, jobs, buffer, writers>>

\* the scope is dropped while unwinding: it joins the jobs it has started,
\* and the panic leaves fill_mandel_image_parallel
parallel_unwind ==
    /\ fill_pc = "unwinding"
    /\ AllJoined
    /\ fill_pc' = "panicked"
    /\ UNCHANGED <<guiVars, progVars, call, ret, splitsVec, endRow, restLen, slotsLeft,
                   statusVec, jobs, buffer, writers>>

EngineNext ==
    \/ call_get_color
    \/ call_mandel_value
    \/ call_cvt
    \/ call_fill_mandel_image_partial
    \/ call_make_mandel_image
    \/ parallel_begin
    \/ scope_execute
    \/ split_at_mut_panic
    \/ worker
    \/ parallel_return
    \/ parallel_unwind

EngineSpec == EngineInit /\ [][EngineNext]_vars

---------------------------------------------------------------------------
(* Properties *)

Renders == 1..Len(rendered)

\* C1: the requests that are in the channel when the producer's blocking
\* receive takes the first of them (ids first..last) get exactly one render:
\* it is never one of the older ones, it is the last of them when nothing
\* was enqueued before the drain ended, and no other render is of that batch.
C1_Coalescing ==
    \A i \in Renders :
        LET r == rendered[i]
        IN  /\ r.first <= r.last
            /\ r.id >= r.last
            /\ r.polled = r.last => r.id = r.last
            /\ \A j \in Renders \ {i} :
                   /\ rendered[j].first # r.first
                   /\ rendered[j].id \notin r.first..r.last

\* three requests were queued at the receive and the third was rendered
C1_Witness ==
    \E i \in Renders :
        /\ rendered[i].last - rendered[i].first = 2
        /\ rendered[i].id = rendered[i].last
        /\ pc = "send"

\* renders whose send_blocking has returned
Returned == Len(rendered) - (IF pc \in {"render", "send", "panicked"} THEN 1 ELSE 0)

\* C2 as stated: with the reply channel full when a render completes the
\* producer never blocks, it has a step to take.
C2_Original ==
    (pc = "send" /\ ~replyClosed /\ Len(replyChan) >= 1) => ENABLED Producer

\* C2 as amended: with the reply channel full (and open) when a render
\* completes the producer blocks in send_blocking, and as long as the
\* consumer holds the receiver no reply is dropped: every render whose
\* send has returned put its reply on the channel.
C2_Amended ==
    /\ (pc = "send" /\ ~replyClosed /\ Len(replyChan) >= 1) => ~ENABLED Producer
    /\ ~receiverDropped => Len(delivered) = Returned

\* a finished reply waits in the producer behind an earlier one
C2_Witness ==
    /\ pc = "send"
    /\ ~replyClosed
    /\ Len(replyChan) = 1
    /\ Unwrap(reply).from > replyChan[1].from

\* a request that yields no image, in the words of the specification
SpecInvalid(m) ==
    \/ m.scale <= 0
    \/ m.iteration_depth <= 0
    \/ m.win_width <= 0
    \/ m.win_height <= 0
    \/ m.win_width > I32Max
    \/ m.win_height > I32Max
NoImage(m) == SpecInvalid(m) \/ stride_for_width(m.win_width) = None

C4_NoneIffRejected ==
    /\ pc = "send" =>
           (Unwrap(reply).result = None <=> NoImage(Unwrap(request).params))
    /\ (pc \in {"send", "panicked"} /\ SpecInvalid(Unwrap(request).params)) =>
           ran = NothingRan

\* the reply of a request with scale 0 is about to be sent
C4_Witness ==
    /\ pc = "send"
    /\ Unwrap(request).params.scale = 0
    /\ Unwrap(reply).result = None
    /\ ran = NothingRan

\* renders that are over: returned from, or panicked
Over == Len(rendered) - (IF pc \in {"render", "send"} THEN 1 ELSE 0)

\* C5: every request the producer has rendered got exactly one reply (the
\* consumer holding the receiver), and the reply built after a render has
\* the width and height of the request rendered and the stride and pixels
\* of its image.
C5_OneReplyPerRender ==
    /\ ~receiverDropped =>
           \A i \in 1..Over :
               Cardinality({j \in 1..Len(delivered) :
                               delivered[j] = rendered[i].id}) = 1
    /\ pc = "send" =>
           LET req == Unwrap(request)
               rep == Unwrap(reply)
               out == make_mandel_image(req, par_count)
           IN  /\ rep.from = req.id
               /\ rep.width = req.params.win_width
               /\ rep.height = req.params.win_height
               /\ rep.stride = out.stride
               /\ rep.result = out.result

\* C6 as stated: once the consumer has closed the request channel no
\* further reply is sent.
C6_Original == [][senderDropped => delivered' = delivered]_vars

\* C6 as amended: once the request channel is closed the loop ends when
\* its blocking receive finds the channel empty, and not before: the render
\* in progress and the requests queued at closing are still answered, with
\* at most two replies after the closing; once ended the producer does
\* nothing more.
C6_Amended ==
    /\ pc = "done" =>
           /\ senderDropped
           /\ reqChan = <<>>
           /\ available = None
           /\ reply = None
           /\ ~ENABLED Producer
    /\ (pc = "recv" /\ senderDropped /\ reqChan = <<>>) => ENABLED RecvClosed
    /\ senderDropped => Len(delivered) - closedAt <= 2

\* the loop has ended after two replies sent since the closing
C6_Witness ==
    /\ pc = "done"
    /\ ~receiverDropped
    /\ Len(delivered) - closedAt = 2

\* C7 as stated: once the reply channel is closed the producer loop
\* eventually exits.
C7_Original == receiverDropped ~> ProducerGone

\* C7 as amended: only the closing of the request channel ends the loop;
\* with the reply channel closed the producer goes on: it is rendering, or
\* it has a step to take, or it waits for the next request on the open,
\* empty channel.
C7_Amended ==
    /\ pc = "done" => senderDropped /\ reqChan = <<>>
    /\ (receiverDropped /\ ~ProducerGone) =>
           \/ pc = "render"
           \/ ENABLED (Recv \/ RecvClosed \/ DrainOne \/ DrainEmpty
                        \/ StartRender \/ SendReply \/ SendClosed)
           \/ (pc = "recv" /\ reqChan = <<>> /\ ~senderDropped)

\* a render runs after the reply of an earlier one was dropped on the
\* closed reply channel
C7_Witness ==
    /\ receiverDropped
    /\ ~senderDropped
    /\ pc = "render"
    /\ Len(delivered) + 1 < Len(rendered)

\* C8 as stated: the request rendered is the last one sent before the
\* render started.
C8_Original == \A i \in Renders : rendered[i].id = rendered[i].started

\* C8 as amended: the request rendered is the last one sent before the
\* drain's last poll of the channel, the one that found it empty; what is
\* in the channel when the render starts was sent after that poll.
C8_Amended ==
    /\ \A i \in Renders : rendered[i].id = rendered[i].polled
    /\ pc = "take" => Unwrap(available).id = polled
    /\ pc = "render" =>
           \A k \in 1..Len(reqChan) : reqChan[k].id > rendered[Len(rendered)].polled

\* a request was sent between the empty poll and the start of the render
C8_Witness ==
    \E i \in Renders :
        /\ rendered[i].started > rendered[i].polled
        /\ rendered[i].id = rendered[i].polled

FinalSent == sent > 0 /\ (senderDropped \/ sent = MaxSends)

\* C10: once the consumer has sent its last request, and unless it drops
\* the receiver, the reply rendered from that request is eventually the
\* image it shows.
C10_FinalRequestShown ==
    FinalSent ~> (receiverDropped \/ (IsSome(img) /\ Unwrap(img).from = sent))

\* the call of the parallel fill under way, and whether it is over
ParallelCall == IsSome(call) /\ Unwrap(call).fn = "fill_mandel_image_parallel"
ParallelOver == ParallelCall /\ fill_pc \in {"returned", "panicked"}

\* the parallel fill of EngineSpec, thread by thread, ends as the one the
\* producer's renders use (scoped_loop), which takes the bands in turn
ParallelAgrees ==
    ParallelOver =>
        LET c   == Unwrap(call)
            out == fill_mandel_image_parallel(c.pool, c.data, c.col, c.w, c.h,
                                              c.max, c.ustride, c.m)
        IN  /\ out.panic <=> fill_pc = "panicked"
            /\ fill_pc = "returned" =>
                   /\ buffer = out.data
                   /\ ret = Some(out.ok)

\* C11: the consumer's send of a request never blocks: as long as the
\* request channel is open (and the run has sends left) the request can be
\* enqueued at once, wherever the producer is, also while it renders and
\* while it is blocked sending a reply.
C11_SendNeverBlocks ==
    (sent < MaxSends /\ ~reqClosed) => ENABLED SendRequest

\* the producer is blocked sending a reply and the channel holds a request
\* that was enqueued after its render had started
C11_Witness ==
    /\ pc = "send"
    /\ ~replyClosed
    /\ Len(replyChan) = ReplyCap
    /\ reqChan # <<>>
    /\ reqChan[Len(reqChan)].id > rendered[Len(rendered)].started

\* C12: for every worker count, the parallel fill ends with the buffer
\* (and the result) of the single-threaded fill_mandel_image on the same
\* arguments.
C12_ParallelEqualsSerial ==
    ParallelOver =>
        LET c      == Unwrap(call)
            serial == fill_mandel_image(c.data, c.col, c.w, c.h, c.max,
                                        c.ustride, c.m)
        IN  /\ fill_pc = "returned"
            /\ buffer = serial.data
            /\ ret = Some(serial.ok)

\* C13: for h >= p >= 1 the splits are p band starts from 0, strictly
\* ascending; the band of a start goes to the next start, the last to h, so
\* that the bands are contiguous and cover the h rows; the first h mod p
\* bands have floor(h/p) + 1 rows and the others floor(h/p), and two bands
\* differ by at most one row.
C13_BandStarts ==
    (ParallelCall /\ fill_pc = "scoped" /\ jobs = <<>>) =>
        LET h == Unwrap(call).h
            p == Unwrap(call).pool
            band_end(i) == IF i < p THEN splitsVec[i + 1] ELSE h
            rows(i) == band_end(i) - splitsVec[i]
        IN  /\ Len(splitsVec) = p
            /\ splitsVec[1] = 0
            /\ \A i \in 1..(p - 1) : splitsVec[i] < splitsVec[i + 1]
            /\ \A i \in 1..p :
                   rows(i) = (h \div p) + (IF i <= h % p THEN 1 ELSE 0)
            /\ \A i, j \in 1..p :
                   rows(i) - rows(j) \in {-1, 0, 1}

\* the splits of 7 rows for 3 workers are 0, 3, 5
C13_Witness ==
    /\ ParallelCall
    /\ fill_pc = "scoped"
    /\ jobs = <<>>
    /\ Unwrap(call).h = 7
    /\ Unwrap(call).pool = 3
    /\ splitsVec = <<0, 3, 5>>

\* the bytes (positions from 1) of the sub-slice handed to the job j
JobBytes(j) == (jobs[j].lo + 1)..(jobs[j].lo + jobs[j].len)

\* the bytes of the row wy of the buffer
RowBytes(wy) ==
    (wy * Unwrap(call).ustride + 1)..((wy + 1) * Unwrap(call).ustride)

\* the sub-slices handed to the workers are pairwise disjoint, the one of the
\* band from s to e is the bytes from s * stride to e * stride, and no byte
\* is ever written by two workers, nor by a worker outside its sub-slice
C14_Disjoint ==
    ParallelCall =>
        /\ \A i, j \in 1..Len(jobs) :
               i # j => JobBytes(i) \cap JobBytes(j) = {}
        /\ \A j \in 1..Len(jobs) :
               JobBytes(j) = (jobs[j].h_start * Unwrap(call).ustride + 1)
                                ..(jobs[j].h_end * Unwrap(call).ustride)
        /\ \A k \in 1..Len(writers) :
               /\ Cardinality(writers[k]) <= 1
               /\ \A j \in writers[k] : k \in JobBytes(j)

\* when the fill is over the sub-slices make up the whole buffer and every
\* row was written by exactly one worker
C14_Covered ==
    ParallelOver =>
        /\ UNION {JobBytes(j) : j \in 1..Len(jobs)} = 1..Len(buffer)
        /\ \A wy \in 0..(Unwrap(call).h - 1) :
               Cardinality(UNION {writers[k] : k \in RowBytes(wy)}) = 1

\* C14: the sub-slices handed to the workers are pairwise disjoint, each is
\* the bytes of its band, together they are the whole buffer, every row is
\* written by exactly one worker, and no two workers write the same byte.
C14_RaceFreedom == C14_Disjoint /\ C14_Covered

\* C15: for every pool size P and h >= P the parallel fill does not panic,
\* hands out one fill per band, each with a status slot of its own, and
\* returns, after all the workers, the conjunction of the P results.
C15_Aggregation ==
    ParallelCall =>
        /\ fill_pc \notin {"unwinding", "panicked"}
        /\ \A i, j \in 1..Len(jobs) : i # j => jobs[i].slot # jobs[j].slot
        /\ \A j \in 1..Len(jobs) : jobs[j].slot \in 1..Len(statusVec)
        /\ fill_pc = "returned" =>
               /\ Len(jobs) = Unwrap(call).pool
               /\ AllJoined
               /\ ret = Some(\A j \in 1..Len(jobs) : statusVec[jobs[j].slot])

\* the call of the band fill, and whether it is over
PartialCall == IsSome(call) /\ Unwrap(call).fn = "fill_mandel_image_partial"
PartialOver == PartialCall /\ IsSome(ret)

\* the slice is shorter than (row_end - row_start) * row_stride bytes
ShortSlice(c) == Len(c.data) < (c.h_end - c.h_start) * c.ustride

\* C16: on a destination slice shorter than (row_end - row_start) *
\* row_stride bytes the band fill returns false and does not panic.
C16_ShortSliceFalse ==
    (PartialOver /\ ShortSlice(Unwrap(call))) =>
        /\ ~Unwrap(ret).panic
        /\ Unwrap(ret).ok = FALSE

\* C17: after a fill that succeeded, with a row stride s >= 4 * w, in every
\* row of the band the 4 bytes at 4 * wx are the native-endian bytes of the
\* colour of the pixel (wx, row), and every other byte, the pad bytes from
\* 4 * w to s of the rows and what follows the band, is as it was before.
C17_RowLayout ==
    (PartialOver /\ ~Unwrap(ret).panic /\ Unwrap(ret).ok
         /\ Unwrap(call).ustride >= BytesPerPixel * Unwrap(call).w) =>
        LET c    == Unwrap(call)
            out  == Unwrap(ret).data
            conv == from_mapping(c.m)
            rows == c.h_end - c.h_start
            colour(wx, dy) ==
                get_color(c.col,
                          mandel_value(cvt_x(conv, wx),
                                       cvt_y(conv, c.h_start + dy), c.max),
                          c.max)
        IN  /\ Len(out) = Len(c.data)
            /\ \A dy \in 0..(rows - 1) :
                   /\ \A wx \in 0..(c.w - 1) : \A i \in 0..(BytesPerPixel - 1) :
                          out[dy * c.ustride + BytesPerPixel * wx + i + 1]
                              = to_ne_byte(colour(wx, dy), i)
                   /\ \A k \in (BytesPerPixel * c.w + 1)..c.ustride :
                          out[dy * c.ustride + k] = c.data[dy * c.ustride + k]
            /\ \A k \in (rows * c.ustride + 1)..Len(out) : out[k] = c.data[k]

\* a band of two rows with pad bytes was filled: the pixels are written and
\* the pad bytes of both rows are those of before
C17_Witness ==
    /\ PartialOver
    /\ ~Unwrap(ret).panic
    /\ Unwrap(call).h_end - Unwrap(call).h_start = 2
    /\ Unwrap(call).ustride > BytesPerPixel * Unwrap(call).w
    /\ Unwrap(call).data[1] = 170
    /\ Unwrap(ret).data[1] # 170
    /\ Unwrap(ret).data[Unwrap(call).ustride] = 170
    /\ Unwrap(ret).data[2 * Unwrap(call).ustride] = 170

\* the call of a colouring, and whether it is over
ColorCall == IsSome(call) /\ Unwrap(call).fn = "get_color"
ColorOver == ColorCall /\ IsSome(ret)

\* C18: every colouring gives any v >= max the colour it gives max.
C18_AtCap ==
    (ColorOver /\ Unwrap(call).v >= Unwrap(call).max) =>
        Unwrap(ret) = get_color(Unwrap(call).col, Unwrap(call).max,
                                Unwrap(call).max)

\* the orbit of 0 under z -> z * z + (x, y) after n iterations
RECURSIVE orbit(_, _, _)
orbit(x, y, n) ==
    IF n = 0 THEN <<0, 0>>
    ELSE LET z == orbit(x, y, n - 1)
         IN  <<z[1] * z[1] - z[2] * z[2] + x, 2 * z[1] * z[2] + y>>
Escaped(x, y, n) ==
    LET z == orbit(x, y, n) IN z[1] * z[1] + z[2] * z[2] >= 4

\* the call of mandel_value, and whether it is over
MandelCall == IsSome(call) /\ Unwrap(call).fn = "mandel_value"
MandelOver == MandelCall /\ IsSome(ret)

\* C19: mandel_value(x, y, max) ends with a result v <= max: the orbit has
\* not left the circle of radius 2 in its first v iterations, and it leaves
\* it in the next one unless v = max.
C19_EscapeCount ==
    MandelOver =>
        LET c == Unwrap(call)
            v == Unwrap(ret)
        IN  /\ v \in 0..c.max
            /\ \A n \in 1..v : ~Escaped(c.x, c.y, n)
            /\ v < c.max => Escaped(c.x, c.y, v + 1)

\* (1, 0) escapes in its second iteration, so that one iteration completed
C19_Witness ==
    /\ MandelOver
    /\ Unwrap(call).x = 1
    /\ Unwrap(call).y = 0
    /\ Unwrap(call).max = MaxDepth
    /\ Unwrap(ret) = 1

\* the call of cvt on the integer halves of the width and the height
CentreCall ==
    /\ IsSome(call)
    /\ Unwrap(call).fn = "cvt"
    /\ IsSome(ret)
    /\ Unwrap(call).wx = Unwrap(call).m.win_width \div 2
    /\ Unwrap(call).wy = Unwrap(call).m.win_height \div 2

\* C20 as stated: for every width and height, odd or even, cvt of the
\* integer halves of the width and the height is (cx, cy).
C20_Original ==
    CentreCall => Unwrap(ret) = <<Unwrap(call).m.cx, Unwrap(call).m.cy>>

\* C20 as amended: cvt of the integer halves is (cx, cy) when the width
\* and the height are even; an odd width puts x at cx - scale / 2 and an odd
\* height puts y at cy + scale / 2, half a pixel from the centre.
C20_Amended ==
    CentreCall =>
        LET m == Unwrap(call).m
        IN  Unwrap(ret) =
                <<m.cx - (IF m.win_width % 2 = 1 THEN Half(m.scale) ELSE 0),
                  m.cy + (IF m.win_height % 2 = 1 THEN Half(m.scale) ELSE 0)>>

\* the centre of a window of odd width and even height was converted
C20_Witness ==
    /\ CentreCall
    /\ Unwrap(call).m.win_width = 3
    /\ Unwrap(call).m.win_height = 4
    /\ Unwrap(ret)[1] # Unwrap(call).m.cx
    /\ Unwrap(ret)[2] = Unwrap(call).m.cy


MakeCall == IsSome(call) /\ Unwrap(call).fn = "make_mandel_image"
MakeOver == MakeCall /\ IsSome(ret)

\* the rows of the bands of the splits sp of an image of h rows
BandRows(sp, h) ==
    [i \in 1..Len(sp) |-> (IF i < Len(sp) THEN sp[i + 1] ELSE h) - sp[i]]

\* C21: end to end, the request for the initial square window around (0, 0),
\* of an even number n of pixels a side, with the black-white colouring,
\* gets a reply with an image of n rows and n columns in which the centre
\* pixel (n/2, n/2) has the escape value iteration_depth and whose 4 bytes
\* are those of the cap colour 0x808080 of that colouring.
C21_EndToEnd ==
    (MakeOver /\ Unwrap(call).req.coloring = 3
         /\ Unwrap(call).req.params.win_width % 2 = 0) =>
        LET req   == Unwrap(call).req
            m     == req.params
            n     == m.win_width
            conv  == from_mapping(m)
            rep   == MakeReply(req, Unwrap(ret))
        IN  /\ ~Unwrap(ret).panic
            /\ IsSome(rep.result)
            /\ rep.height = n
            /\ rep.width = n
            /\ Len(Unwrap(rep.result)) = n * rep.stride
            /\ mandel_value(cvt_x(conv, Half(n)), cvt_y(conv, Half(n)),
                            m.iteration_depth) = m.iteration_depth
            /\ \A i \in 0..(BytesPerPixel - 1) :
                   Unwrap(rep.result)[Half(n) * rep.stride
                                         + BytesPerPixel * Half(n) + i + 1]
                       = to_ne_byte(8421504, i)

\* C24: make_mandel_image fills with the parallel fill exactly when the
\* window has at least as many rows as the pool has threads, and with the
\* single-threaded fill of the whole image when it has fewer; the bands of
\* a parallel fill all have at least one row.
C24_SmallSerial ==
    (MakeOver /\ Unwrap(ret).allocated) =>
        LET req == Unwrap(call).req
            m   == req.params
            h   == m.win_height
            p   == Unwrap(call).pool
            out == Unwrap(ret)
            st  == Unwrap(stride_for_width(m.win_width))
        IN  /\ out.engine = "parallel" <=> h >= p
            /\ out.engine = "serial" <=> h < p
            /\ out.engine = "parallel" =>
                   \A i \in 1..p : BandRows(compute_splits(h, p), h)[i] >= 1
            /\ out.engine = "serial" =>
                   /\ ~out.panic
                   /\ out.result =
                          Some(fill_mandel_image([k \in 1..(h * st) |-> 0],
                                   req.coloring, m.win_width, h,
                                   m.iteration_depth, st, m).data)

\* a window with one row fewer than the pool has threads was filled on one
\* thread, and one with as many rows as threads by the pool
C24_Witness ==
    /\ MakeOver
    /\ Unwrap(call).req.params.win_height + 1 = Unwrap(call).pool
    /\ Unwrap(call).pool >= 3
    /\ Unwrap(ret).engine = "serial"
    /\ IsSome(Unwrap(ret).result)


\* the replies that exist: the one being sent, the one in the reply
\* channel, the one the consumer received last
Replies ==
    {reply[k] : k \in 1..Len(reply)}
        \cup {replyChan[k] : k \in 1..Len(replyChan)}
        \cup {img[k] : k \in 1..Len(img)}

C23_TakeIsSome ==
    /\ pc \in {"drain", "take"} => IsSome(available)
    /\ pc \notin {"drain", "take"} => available = None

\* the slot is taken in a later iteration, after the drain replaced the
\* request of the blocking receive, with the request channel closed
C23_Witness ==
    /\ pc = "take"
    /\ IsSome(available)
    /\ Len(rendered) >= 1
    /\ Unwrap(available).id > batch.first
    /\ senderDropped


\* the request sent last
LastRequest == reqChan[Len(reqChan)]

\* the request r carries the mapping m and the colouring of the State
Carries(r, m) == r.params = m /\ r.coloring = state.col_idx

\* C25: with State.block set no change of a field sends a request; the
\* click on the canvas and preset_ready with a preset each send exactly one
\* request, whose mapping is the one from before with all the new values
\* (cx and cy of the pixel clicked; cx, cy, the scale of the zoom and the
\* iteration depth of the preset) and is the State's mapping afterwards;
\* without a preset preset_ready sends one request for the mapping as it is.
C25_Batched ==
    /\ LET g == [World EXCEPT !.state.block = TRUE]
       IN  /\ \A text \in Texts :
                  /\ cx_value_set_text(g, text).out = <<>>
                  /\ cy_value_set_text(g, text).out = <<>>
           /\ \A zoom \in 0..MaxZoom : zoom_adj_set_value(g, zoom).out = <<>>
           /\ \A value \in {IterLower, InitialDepth, IterUpper} :
                  iter_adj_set_value(g, value).out = <<>>
           /\ col_changed(g).out = <<>>
           /\ State_on_resize(g, 1, 1).out = <<>>
    /\ event.name = "on_clicked" =>
           LET b     == event.before
               new_c == win_to_mandel(b, event.args[1], event.args[2])
           IN  /\ sent = event.sent0 + 1
               /\ Carries(LastRequest, [b.mapping EXCEPT !.cx = new_c[1],
                                                         !.cy = new_c[2]])
               /\ state.mapping = LastRequest.params
               /\ ~state.block
    /\ (event.name = "preset_ready" /\ IsSome(event.args)) =>
           LET b == event.before
               p == Presets_get(Unwrap(event.args))
           IN  /\ sent = event.sent0 + 1
               /\ Carries(LastRequest,
                          [b.mapping EXCEPT !.cx = p.cx, !.cy = p.cy,
                                            !.scale = zoom_scale(p.zoom),
                                            !.iteration_depth = p.iter_depth])
               /\ state.mapping = LastRequest.params
               /\ ~state.block
    /\ (event.name = "preset_ready" /\ event.args = None) =>
           /\ sent = event.sent0 + 1
           /\ Carries(LastRequest, event.before.mapping)
           /\ state.mapping = event.before.mapping

\* a preset was applied that changed the centre, the scale and the
\* iteration depth: one request was sent
C25_Witness ==
    /\ event.name = "preset_ready"
    /\ IsSome(event.args)
    /\ state.mapping.cx # event.before.mapping.cx
    /\ state.mapping.cy # event.before.mapping.cy
    /\ state.mapping.scale # event.before.mapping.scale
    /\ state.mapping.iteration_depth # event.before.mapping.iteration_depth
    /\ sent = event.sent0 + 1
    /\ LastRequest.params = state.mapping

\* C26: a setter of the State called while a PostponedRedraw is alive,
\* nested ones included, sends no request, and the drop of the last one
\* alive sends exactly one.
C26_Postponed ==
    /\ (event.name \in SetterNames /\ event.live >= 1) => sent = event.sent0
    /\ (event.name = "drop" /\ guards = 0) => sent = event.sent0 + 1

====
